---- MODULE Spec2Model ----
(***************************************************************************)
(* The dataset detail view (frontend/src/components/datasets/Dataset.tsx)  *)
(* and the change-role dialog (ChangeDatasetRoleModal) of clowder2.        *)
(*                                                                         *)
(* React runs an event handler, re-renders, and then runs the effects      *)
(* whose dependencies changed before it handles the next event; one action *)
(* below is therefore one handler (or one store update) together with the  *)
(* effects that its state change triggers.                                 *)
(***************************************************************************)
EXTENDS Integers, Sequences, FiniteSets, Bags

(***************************************************************************)
(* Bounds of the model                                                     *)
(***************************************************************************)
\* pages 0 .. MaxPage are explored
MaxPage == 1
\* the user acts only while this many remote calls at most are then unanswered
MaxInFlight == 4
\* at most this many metadata definitions are offered by the edit form
MaxDefs == 1

(***************************************************************************)
(* Program constants and value sets                                        *)
(***************************************************************************)
\* const [limit] = useState<number>(10)
limit == 10

\* sizes a returned batch can have: short of the limit, or full
BatchLens == {limit - 1, limit}

\* searchParams.get("folder"): null at the dataset root, else a folder id
NoFolder == "null"
Folders == {NoFolder, "folder1"}

\* datasetRole.role: undefined until known, else one of the four roles
Undefined == "undefined"
Roles == {"owner", "editor", "uploader", "viewer"}

\* the tabs of the view, by index
TabIndexes == 0 .. 6

\* metadata definitions the edit form can fill in
Definitions == 1 .. MaxDefs

\* users the dialog can be opened for; the empty string is no user
Emails == {"", "a@x.org", "b@x.org", "c@x.org"}

VARIABLES
    \* Dataset: pagination state
    currPageNum, skip, prevDisabled, nextDisabled,
    \* Dataset: tabs, metadata form, error dialog, early-return pages
    selectedTabIndex, enableAddMetadata, metadataRequestForms,
    errorOpen, showForbiddenPage, showNotFoundPage,
    \* Dataset: search parameter and the slices of the store it selects
    folderId, filesInDataset, foldersInDataset, datasetRole,
    \* remote calls dispatched and not yet answered (a bag of requests)
    inflight,
    \* ChangeDatasetRoleModal: props and state
    open, email, role, showSuccessAlert,
    \* setDatasetUserRole dispatches issued by the dialog, in order
    roleDispatches

pageVars == <<currPageNum, skip, prevDisabled, nextDisabled>>
formVars == <<selectedTabIndex, enableAddMetadata, metadataRequestForms>>
pageFlags == <<showForbiddenPage, showNotFoundPage>>
storeVars == <<filesInDataset, foldersInDataset, datasetRole>>
datasetVars == <<pageVars, formVars, errorOpen, pageFlags, folderId, storeVars, inflight>>
modalVars == <<open, email, role, showSuccessAlert, roleDispatches>>
vars == <<datasetVars, modalVars>>

(***************************************************************************)
(* Remote calls                                                            *)
(***************************************************************************)
Req(k, f, s) == [kind |-> k, folder |-> f, skip |-> s]

\* listFilesInDataset(datasetId, folderId, skip, limit)
listFilesInDataset(f, s) == Req("files", f, s)
\* listFoldersInDataset(datasetId, folderId, skip, limit)
listFoldersInDataset(f, s) == Req("folders", f, s)
\* listDatasetAbout(datasetId)
listDatasetAbout == Req("about", NoFolder, 0)
\* getFolderPath(folderId)
getFolderPath(f) == Req("folderPath", f, 0)
\* getMetadatDefinitions(null, 0, 100)
getMetadatDefinitions == Req("metadataDefinitions", NoFolder, 0)
\* listDatasetMetadata(datasetId)
listDatasetMetadata == Req("datasetMetadata", NoFolder, 0)

One(r) == SetToBag({r})

\* a batch held in the store: its size and the skip it was requested for
\* (none for what the store holds before any answer)
Batch(n, S) == [len |-> n, skips |-> S]

\* room for n more unanswered calls
CanDispatch(n) == BagCardinality(inflight) + n <= MaxInFlight

(***************************************************************************)
(* Dataset: what is rendered                                               *)
(***************************************************************************)
\* datasetRole.role !== undefined && datasetRole.role !== "viewer"
RoleCanEdit == datasetRole # Undefined /\ datasetRole # "viewer"

\* neither early return (<Forbidden/>, <PageNotFound/>) is taken
LayoutRendered == ~showForbiddenPage /\ ~showNotFoundPage

\* mutant: the error dialog is left out of the layout
ErrorModalRendered_never == FALSE

\* <ErrorModal errorOpen={errorOpen} setErrorOpen={setErrorOpen}/>
ErrorModalRendered == LayoutRendered

\* the "Extract" tab (index 4)
ExtractTabRendered == LayoutRendered /\ RoleCanEdit

\* the "Sharing" tab (index 6)
SharingTabRendered == LayoutRendered /\ RoleCanEdit

\* <TabPanel index={4}> holding <Listeners/>
ExtractPanelRendered == LayoutRendered /\ RoleCanEdit

\* <TabPanel index={6}> holding <SharingTab/>
SharingPanelRendered == LayoutRendered /\ RoleCanEdit

\* mutant: the edit branch is chosen on enableAddMetadata alone
EditFormRendered_noRole ==
    /\ ~showForbiddenPage /\ ~showNotFoundPage
    /\ selectedTabIndex = 2
    /\ enableAddMetadata

\* the first branch of the User Metadata panel: <EditMetadata/>, Update, Cancel
EditFormRendered ==
    /\ LayoutRendered
    /\ selectedTabIndex = 2
    /\ enableAddMetadata /\ RoleCanEdit

\* the other branch of the User Metadata panel: <DisplayMetadata/>
DisplayMetadataRendered ==
    /\ LayoutRendered
    /\ selectedTabIndex = 2
    /\ ~(enableAddMetadata /\ RoleCanEdit)

\* mutant: the Add Metadata button is shown to every role that may edit
AddMetadataButtonRendered_roleOnly ==
    /\ ~showForbiddenPage /\ ~showNotFoundPage
    /\ selectedTabIndex = 2
    /\ ~(enableAddMetadata /\ datasetRole # Undefined /\ datasetRole # "viewer")
    /\ datasetRole # Undefined /\ datasetRole # "viewer"

\* the "Add Metadata" button inside the display branch
AddMetadataButtonRendered ==
    /\ DisplayMetadataRendered
    /\ enableAddMetadata /\ RoleCanEdit

\* the tabs a click can select
TabRendered(i) ==
    /\ LayoutRendered
    /\ \/ i \in {0, 1, 2, 3, 5}
       \/ i = 4 /\ ExtractTabRendered
       \/ i = 6 /\ SharingTabRendered

\* the role-dependent elements on screen
Rendered ==
    (IF ExtractTabRendered THEN {"ExtractTab"} ELSE {})
    \cup (IF SharingTabRendered THEN {"SharingTab"} ELSE {})
    \cup (IF ExtractPanelRendered THEN {"ExtractPanel"} ELSE {})
    \cup (IF SharingPanelRendered THEN {"SharingPanel"} ELSE {})
    \cup (IF EditFormRendered THEN {"EditMetadata"} ELSE {})
    \cup (IF DisplayMetadataRendered THEN {"DisplayMetadata"} ELSE {})
    \cup (IF AddMetadataButtonRendered THEN {"AddMetadataButton"} ELSE {})

(***************************************************************************)
(* Dataset: effects                                                        *)
(***************************************************************************)
\* useEffect(..., [searchParams]) runs when the search parameters changed
SearchParamsChanged == folderId' # folderId

\* mutant: the effect on skip has no dependency list and runs after every render
SkipChanged_everyRender == TRUE

\* useEffect(..., [skip]) runs when skip changed
SkipChanged == skip' # skip

\* the calls of the effect on searchParams
SearchParamsRequests(f, s) ==
    One(listFilesInDataset(f, s)) (+) One(listFoldersInDataset(f, s))
    (+) One(listDatasetAbout) (+) One(getFolderPath(f))

\* the calls of the effect on skip
SkipRequests(f, s) ==
    One(listFilesInDataset(f, s)) (+) One(listFoldersInDataset(f, s))

\* the effect on filesInDataset: disable flipping if reaches the last page
NextDisabledFor(files, folders) == files.len < limit /\ folders.len < limit

\* mutant: the branches of the effect on skip are swapped
PrevDisabledFor_swapped(s) == s # 0

\* the effect on skip: if (skip === 0) setPrevDisabled(true) else setPrevDisabled(false)
PrevDisabledFor(s) == s = 0

\* The effects that follow a render.  base is inflight after the handler's
\* own dispatches; filesChanged says that the store holds a new files array.
RunEffects(base, filesChanged) ==
    /\ inflight' = base
          (+) (IF SearchParamsChanged
               THEN SearchParamsRequests(folderId', skip') ELSE EmptyBag)
          (+) (IF SkipChanged THEN SkipRequests(folderId', skip') ELSE EmptyBag)
    /\ nextDisabled' = IF filesChanged
                       THEN NextDisabledFor(filesInDataset', foldersInDataset')
                       ELSE nextDisabled
    /\ prevDisabled' = IF SkipChanged THEN PrevDisabledFor(skip') ELSE prevDisabled

(***************************************************************************)
(* Dataset: handlers                                                       *)
(***************************************************************************)
previous ==
    /\ IF currPageNum - 1 >= 0
       THEN /\ skip' = (currPageNum - 1) * limit
            /\ currPageNum' = currPageNum - 1
       ELSE UNCHANGED <<skip, currPageNum>>
    /\ UNCHANGED <<formVars, errorOpen, pageFlags, folderId, storeVars, modalVars>>
    /\ RunEffects(inflight, FALSE)

\* mutant: next() sets skip and forgets the page counter
next_keepsPage ==
    /\ IF filesInDataset.len = limit \/ foldersInDataset.len = limit
       THEN /\ skip' = (currPageNum + 1) * limit
            /\ currPageNum' = currPageNum
       ELSE UNCHANGED <<skip, currPageNum>>
    /\ UNCHANGED <<formVars, errorOpen, pageFlags, folderId, storeVars, modalVars>>
    /\ RunEffects(inflight, FALSE)

\* mutant: next() flips the page without looking at the batches
next_unchecked ==
    /\ skip' = (currPageNum + 1) * limit
    /\ currPageNum' = currPageNum + 1
    /\ UNCHANGED <<formVars, errorOpen, pageFlags, folderId, storeVars, modalVars>>
    /\ RunEffects(inflight, FALSE)

next ==
    /\ IF filesInDataset.len = limit \/ foldersInDataset.len = limit
       THEN /\ skip' = (currPageNum + 1) * limit
            /\ currPageNum' = currPageNum + 1
       ELSE UNCHANGED <<skip, currPageNum>>
    /\ UNCHANGED <<formVars, errorOpen, pageFlags, folderId, storeVars, modalVars>>
    /\ RunEffects(inflight, FALSE)

handleTabChange(newTabIndex) ==
    /\ selectedTabIndex' = newTabIndex
    /\ UNCHANGED <<currPageNum, skip, enableAddMetadata, metadataRequestForms,
                   errorOpen, pageFlags, folderId, storeVars, modalVars>>
    /\ RunEffects(inflight, FALSE)

\* setMetadata(metadata): metadata.definition = d, with or without an id
setMetadata(d, hasId) ==
    /\ metadataRequestForms' =
          [x \in DOMAIN metadataRequestForms \cup {d} |->
              IF x = d THEN hasId ELSE metadataRequestForms[x]]
    /\ UNCHANGED <<currPageNum, skip, selectedTabIndex, enableAddMetadata,
                   errorOpen, pageFlags, folderId, storeVars, modalVars>>
    /\ RunEffects(inflight, FALSE)

\* one patch per form with an id, one post per form without
MetadataUpdates(forms) ==
    LET keys == DOMAIN forms
        n(k) == Cardinality({d \in keys : forms[d] = k})
    IN  [r \in {Req(k, NoFolder, 0) :
                  k \in {"patchDatasetMetadata", "postDatasetMetadata"}} |->
            IF r.kind = "patchDatasetMetadata" THEN n(TRUE) ELSE n(FALSE)]

\* a bag without its entries of zero copies
Positive(b) == [r \in {x \in DOMAIN b : b[x] > 0} |-> b[r]]

handleMetadataUpdateFinish ==
    /\ metadataRequestForms' = <<>>
    /\ enableAddMetadata' = FALSE
    /\ UNCHANGED <<currPageNum, skip, selectedTabIndex,
                   errorOpen, pageFlags, folderId, storeVars, modalVars>>
    /\ RunEffects(inflight (+) Positive(MetadataUpdates(metadataRequestForms))
                           (+) One(listDatasetMetadata), FALSE)

\* the Cancel button of the edit form: setEnableAddMetadata(false)
cancelAddMetadata ==
    /\ enableAddMetadata' = FALSE
    /\ UNCHANGED <<currPageNum, skip, selectedTabIndex, metadataRequestForms,
                   errorOpen, pageFlags, folderId, storeVars, modalVars>>
    /\ RunEffects(inflight, FALSE)

\* the Add Metadata button: setEnableAddMetadata(true)
addMetadata ==
    /\ enableAddMetadata' = TRUE
    /\ UNCHANGED <<currPageNum, skip, selectedTabIndex, metadataRequestForms,
                   errorOpen, pageFlags, folderId, storeVars, modalVars>>
    /\ RunEffects(inflight, FALSE)

(***************************************************************************)
(* Dataset: clicks, navigation and store updates                           *)
(***************************************************************************)
\* <Button aria-label="previous" onClick={previous} disabled={prevDisabled}>
ClickPrevious ==
    /\ LayoutRendered /\ ~prevDisabled
    /\ CanDispatch(2)
    /\ previous

\* <Button aria-label="next" onClick={next} disabled={nextDisabled}>
ClickNext ==
    /\ LayoutRendered /\ ~nextDisabled
    /\ currPageNum < MaxPage /\ CanDispatch(2)
    /\ next

\* <Tabs value={selectedTabIndex} onChange={handleTabChange}>
ClickTab ==
    \E i \in TabIndexes :
        /\ TabRendered(i)
        /\ handleTabChange(i)

\* the folder search parameter changes (a folder or a breadcrumb is followed)
Navigate ==
    \E f \in Folders :
        /\ f # folderId
        /\ CanDispatch(4)
        /\ folderId' = f
        /\ UNCHANGED <<currPageNum, skip, formVars, errorOpen, pageFlags,
                       storeVars, modalVars>>
        /\ RunEffects(inflight, FALSE)

\* a files call is answered: state.dataset.files is the returned batch
ReceiveFiles ==
    \E r \in BagToSet(inflight), n \in BatchLens :
        /\ r.kind = "files"
        /\ filesInDataset' = Batch(n, {r.skip})
        /\ UNCHANGED <<currPageNum, skip, formVars, errorOpen, pageFlags,
                       folderId, foldersInDataset, datasetRole, modalVars>>
        /\ RunEffects(inflight (-) One(r), TRUE)

\* a folders call is answered: state.folder.folders is the returned batch
ReceiveFolders ==
    \E r \in BagToSet(inflight), n \in BatchLens :
        /\ r.kind = "folders"
        /\ foldersInDataset' = Batch(n, {r.skip})
        /\ UNCHANGED <<currPageNum, skip, formVars, errorOpen, pageFlags,
                       folderId, filesInDataset, datasetRole, modalVars>>
        /\ RunEffects(inflight (-) One(r), FALSE)

\* any other call is answered
ReceiveOther ==
    \E r \in BagToSet(inflight) :
        /\ r.kind \notin {"files", "folders"}
        /\ UNCHANGED <<currPageNum, skip, formVars, errorOpen, pageFlags,
                       folderId, storeVars, modalVars>>
        /\ RunEffects(inflight (-) One(r), FALSE)

\* a call fails: the failure reaches the error dialog, which opens itself
\* through the setErrorOpen it was given
FailRequest ==
    \E r \in BagToSet(inflight) :
        /\ errorOpen' = IF ErrorModalRendered THEN TRUE ELSE errorOpen
        /\ UNCHANGED <<currPageNum, skip, formVars, pageFlags,
                       folderId, storeVars, modalVars>>
        /\ RunEffects(inflight (-) One(r), FALSE)

\* the error dialog is dismissed: setErrorOpen(false)
CloseErrorModal ==
    /\ ErrorModalRendered /\ errorOpen
    /\ errorOpen' = FALSE
    /\ UNCHANGED <<currPageNum, skip, formVars, pageFlags,
                   folderId, storeVars, modalVars>>
    /\ RunEffects(inflight, FALSE)

\* state.dataset.datasetRole changes in the store
ReceiveRole ==
    \E x \in Roles :
        /\ x # datasetRole
        /\ datasetRole' = x
        /\ UNCHANGED <<currPageNum, skip, formVars, errorOpen, pageFlags,
                       folderId, filesInDataset, foldersInDataset, modalVars>>
        /\ RunEffects(inflight, FALSE)

(***************************************************************************)
(* ChangeDatasetRoleModal                                                  *)
(***************************************************************************)
\* mutant: the Share button is never disabled
ShareDisabled_never == FALSE

\* disabled={(email.length > 0) ? false : true}
ShareDisabled == ~(Len(email) > 0)

\* setUserRole(datasetId, email, role)
setUserRole(e, r) == [email |-> e, role |-> r]

\* mutant: onShare leaves the email in place
onShare_keepsEmail ==
    /\ roleDispatches' = Append(roleDispatches, setUserRole(email, role))
    /\ role' = "viewer"
    /\ showSuccessAlert' = TRUE
    /\ UNCHANGED <<open, email, datasetVars>>

onShare ==
    /\ roleDispatches' = Append(roleDispatches, setUserRole(email, role))
    /\ email' = ""
    /\ role' = "viewer"
    /\ showSuccessAlert' = TRUE
    /\ UNCHANGED <<open, datasetVars>>

\* <Button onClick={onShare} disabled={...}>Share</Button>
ClickShare ==
    /\ open /\ ~ShareDisabled
    /\ onShare

\* <Select value={role} onChange={...}>: setRole(event.target.value)
SelectRole ==
    \E r \in Roles :
        /\ open
        /\ role' = r
        /\ UNCHANGED <<open, email, showSuccessAlert, roleDispatches, datasetVars>>

\* the close icon of the success alert: setShowSuccessAlert(false)
CloseSuccessAlert ==
    /\ open /\ showSuccessAlert
    /\ showSuccessAlert' = FALSE
    /\ UNCHANGED <<open, email, role, roleDispatches, datasetVars>>

\* <Dialog onClose={handleClose}> and the Close button: the parent hides the dialog
handleClose ==
    /\ open
    /\ open' = FALSE
    /\ UNCHANGED <<email, role, showSuccessAlert, roleDispatches, datasetVars>>

\* the parent shows the dialog again
Reopen ==
    /\ ~open
    /\ open' = TRUE
    /\ UNCHANGED <<email, role, showSuccessAlert, roleDispatches, datasetVars>>

(***************************************************************************)
(* Specifications                                                          *)
(***************************************************************************)
\* the dialog, not mounted
ModalIdle ==
    /\ open = FALSE /\ email = "" /\ role = "viewer"
    /\ showSuccessAlert = FALSE /\ roleDispatches = <<>>

\* the view after it is mounted: state initialised, the effects run once
DatasetInit ==
    /\ currPageNum = 0 /\ skip = 0
    /\ selectedTabIndex = 0 /\ enableAddMetadata = FALSE
    /\ metadataRequestForms = <<>>
    /\ errorOpen = FALSE
    /\ showForbiddenPage = FALSE /\ showNotFoundPage = FALSE
    /\ folderId \in Folders
    /\ filesInDataset = Batch(0, {})
    /\ foldersInDataset = Batch(0, {})
    /\ datasetRole = Undefined
    /\ prevDisabled = PrevDisabledFor(skip)
    /\ nextDisabled = NextDisabledFor(filesInDataset, foldersInDataset)
    /\ inflight = SearchParamsRequests(folderId, skip)
                  (+) One(getMetadatDefinitions)
                  (+) SkipRequests(folderId, skip)

Init == DatasetInit /\ ModalIdle

Next ==
    \/ ClickPrevious
    \/ ClickNext
    \/ Navigate
    \/ ReceiveFiles
    \/ ReceiveFolders
    \/ ReceiveOther
    \/ FailRequest
    \/ CloseErrorModal

\* the view: paging, folder navigation, answers and failures of the calls
Spec == Init /\ [][Next]_vars

SuccessNext ==
    \/ ClickPrevious
    \/ ClickNext
    \/ Navigate
    \/ ReceiveFiles
    \/ ReceiveFolders
    \/ ReceiveOther

\* the view when every call succeeds
SuccessSpec == Init /\ [][SuccessNext]_vars

\* the handlers and the render as functions of the component state: any
\* values of the state fields and of the selected store slices
HandlerInit ==
    /\ currPageNum \in 0 .. MaxPage
    /\ skip = currPageNum * limit
    /\ selectedTabIndex \in TabIndexes
    /\ enableAddMetadata \in BOOLEAN
    /\ metadataRequestForms \in
          UNION {[D -> BOOLEAN] : D \in SUBSET Definitions}
    /\ errorOpen = FALSE
    /\ showForbiddenPage = FALSE /\ showNotFoundPage = FALSE
    /\ folderId = NoFolder
    /\ filesInDataset \in {Batch(n, {skip}) : n \in BatchLens}
    /\ foldersInDataset \in {Batch(n, {skip}) : n \in BatchLens}
    /\ datasetRole \in Roles \cup {Undefined}
    /\ prevDisabled = PrevDisabledFor(skip)
    /\ nextDisabled = NextDisabledFor(filesInDataset, foldersInDataset)
    /\ inflight = EmptyBag
    /\ ModalIdle

\* previous() is called
CallPrevious ==
    /\ CanDispatch(2)
    /\ previous

\* next() is called
CallNext ==
    /\ currPageNum < MaxPage /\ CanDispatch(2)
    /\ next

\* <EditMetadata setMetadata={setMetadata}/> reports a filled-in field
EditMetadataChange ==
    \E d \in Definitions, hasId \in BOOLEAN :
        /\ EditFormRendered
        /\ setMetadata(d, hasId)

\* the Update button of the edit form
ClickUpdate ==
    /\ EditFormRendered
    /\ CanDispatch(MaxDefs + 1)
    /\ handleMetadataUpdateFinish

\* the Cancel button of the edit form
ClickCancel ==
    /\ EditFormRendered
    /\ cancelAddMetadata

\* the Add Metadata button of the display branch
ClickAddMetadata ==
    /\ AddMetadataButtonRendered
    /\ addMetadata

\* <DisplayMetadata updateMetadata={updateDatasetMetadata}/> updates an entry
displayUpdateMetadata ==
    /\ UNCHANGED <<currPageNum, skip, formVars, errorOpen, pageFlags,
                   folderId, storeVars, modalVars>>
    /\ RunEffects(inflight (+) One(Req("patchDatasetMetadata", NoFolder, 0)),
                  FALSE)

\* <DisplayMetadata deleteMetadata={deleteDatasetMetadata}/> deletes an entry
displayDeleteMetadata ==
    /\ UNCHANGED <<currPageNum, skip, formVars, errorOpen, pageFlags,
                   folderId, storeVars, modalVars>>
    /\ RunEffects(inflight (+) One(Req("deleteDatasetMetadata", NoFolder, 0)),
                  FALSE)

\* the controls of the User Metadata panel (tab 2)
PanelControls == {"addMetadata", "editField", "update", "cancel",
                  "displayUpdate", "displayDelete"}

\* the user works a control of the User Metadata panel that is on screen;
\* which controls are on screen is decided by the render
UseMetadataPanel ==
    \E c \in PanelControls :
        /\ selectedTabIndex = 2
        /\ \/ c = "addMetadata" /\ ClickAddMetadata
           \/ c = "editField" /\ EditMetadataChange
           \/ c = "update" /\ ClickUpdate
           \/ c = "cancel" /\ ClickCancel
           \/ /\ c = "displayUpdate"
              /\ DisplayMetadataRendered /\ CanDispatch(1)
              /\ displayUpdateMetadata
           \/ /\ c = "displayDelete"
              /\ DisplayMetadataRendered /\ CanDispatch(1)
              /\ displayDeleteMetadata

HandlerNext ==
    \/ CallPrevious
    \/ CallNext
    \/ ClickTab
    \/ ReceiveRole
    \/ EditMetadataChange
    \/ ClickUpdate
    \/ ClickCancel

HandlerSpec == HandlerInit /\ [][HandlerNext]_vars

MetadataNext ==
    \/ ClickTab
    \/ ReceiveRole
    \/ UseMetadataPanel
    \/ ReceiveFiles
    \/ ReceiveFolders
    \/ ReceiveOther

\* the view from its mount: tabs, role changes, the User Metadata panel,
\* and the answers of the calls
MetadataSpec == Init /\ [][MetadataNext]_vars

\* the dialog after it is mounted for currentUser with currentRole
ModalInit ==
    /\ open = TRUE
    /\ email \in Emails
    /\ role \in Roles
    /\ showSuccessAlert = FALSE
    /\ roleDispatches = <<>>
    /\ DatasetInit /\ folderId = NoFolder

ModalNext ==
    \/ ClickShare
    \/ SelectRole
    \/ CloseSuccessAlert
    \/ handleClose
    \/ Reopen

ModalSpec == ModalInit /\ [][ModalNext]_vars

C2_NextDisabledIffBothShort ==
    (filesInDataset.skips # {} /\ foldersInDataset.skips # {}) =>
        (nextDisabled <=>
            (filesInDataset.len < limit /\ foldersInDataset.len < limit))

\* C3: in every state (the effects of a step run within it) Previous is
\* disabled if and only if skip = 0, which is if and only if currPageNum = 0.
C3_PrevDisabledIffFirstPage ==
    /\ prevDisabled <=> (skip = 0)
    /\ (skip = 0) <=> (currPageNum = 0)

\* back on page 0 after a visit to page 1 whose files call is unanswered
C3_Witness ==
    /\ skip = 0 /\ prevDisabled
    /\ BagIn(listFilesInDataset(folderId, limit), inflight)

\* C4: the Share button is disabled whenever email is empty, and every
\* setDatasetUserRole dispatched by the dialog carries a non-empty email.
C4_SharedEmailNotEmpty ==
    /\ email = "" => ShareDisabled /\ ~ENABLED ClickShare
    /\ \A i \in DOMAIN roleDispatches : roleDispatches[i].email # ""

\* after a share: one dispatch, the email cleared, the button disabled
C4_Witness ==
    /\ open /\ Len(roleDispatches) = 1
    /\ email = "" /\ ShareDisabled

FetchDispatched ==
    \E r \in BagToSet(inflight') :
        /\ r.kind \in {"files", "folders", "about", "folderPath"}
        /\ CopiesIn(r, inflight') > CopiesIn(r, inflight)

\* a call leaves the unanswered calls: it succeeded or failed
CallAnswered ==
    \E r \in BagToSet(inflight) : CopiesIn(r, inflight') < CopiesIn(r, inflight)

\* C6: a step dispatches a fetch only if it changes skip or the search
\* parameter; a step in which a call is answered or fails dispatches nothing
\* and leaves currPageNum and skip unchanged.
C6_FireAndForget ==
    [][/\ FetchDispatched => (skip' # skip \/ folderId' # folderId)
       /\ CallAnswered =>
            /\ ~FetchDispatched
            /\ UNCHANGED <<currPageNum, skip>>]_vars

\* on page 1 with every call answered and every folders call failed
C6_Witness ==
    /\ skip = limit
    /\ errorOpen
    /\ BagCardinality(inflight) = 0
    /\ foldersInDataset.skips = {}

\* the elements that only a role other than viewer may see
RoleGated == {"ExtractTab", "SharingTab", "ExtractPanel", "SharingPanel",
              "EditMetadata"}

\* C7: whatever selectedTabIndex and enableAddMetadata are, an Extract or
\* Sharing tab, their panels or the metadata edit form is rendered only when
\* the role is defined and is not "viewer".
C7_RoleGatesAffordances ==
    (Rendered \cap RoleGated # {}) =>
        (datasetRole # Undefined /\ datasetRole # "viewer")

\* an editor on the User Metadata tab in edit mode sees all of them
C7_Witness ==
    /\ datasetRole = "editor"
    /\ selectedTabIndex = 2 /\ enableAddMetadata
    /\ RoleGated \subseteq Rendered

\* a files or folders batch of exactly limit items is held
BatchFull == filesInDataset.len = limit \/ foldersInDataset.len = limit

\* C8: next() adds 1 to currPageNum and sets skip to the new page times limit
\* when a batch is full, and otherwise changes neither; previous() takes 1
\* from currPageNum when it is at least 1, and changes neither at page 0;
\* neither changes selectedTabIndex or the metadata form.
C8_PageFlipping ==
    /\ [][next =>
            /\ IF BatchFull
               THEN /\ currPageNum' = currPageNum + 1
                    /\ skip' = currPageNum' * limit
               ELSE UNCHANGED <<currPageNum, skip>>
            /\ UNCHANGED formVars]_vars
    /\ [][previous =>
            /\ IF currPageNum >= 1
               THEN /\ currPageNum' = currPageNum - 1
                    /\ skip' = currPageNum' * limit
               ELSE UNCHANGED <<currPageNum, skip>>
            /\ UNCHANGED formVars]_vars
    /\ [](BatchFull => ENABLED (next /\ currPageNum' = currPageNum + 1))
    /\ [](~BatchFull => ENABLED (next /\ UNCHANGED <<currPageNum, skip>>))
    /\ [](currPageNum >= 1 =>
            ENABLED (previous /\ currPageNum' = currPageNum - 1))
    /\ [](currPageNum = 0 =>
            ENABLED (previous /\ UNCHANGED <<currPageNum, skip>>))

\* page 1 reached by next() with the edit form open
C8_Witness ==
    /\ currPageNum = 1
    /\ BagIn(listFilesInDataset(folderId, limit), inflight)
    /\ selectedTabIndex = 2 /\ enableAddMetadata
    /\ DOMAIN metadataRequestForms # {}

\* C9: onShare dispatches exactly one setDatasetUserRole with the email and
\* role of the click, clears email, sets role to "viewer" and shows the
\* success alert; afterwards the Share button stays disabled, so at most one
\* role change is dispatched; closing the alert changes its visibility only.
C9_ShareOnce ==
    /\ [][ClickShare =>
            /\ roleDispatches' =
                  Append(roleDispatches, [email |-> email, role |-> role])
            /\ email' = "" /\ role' = "viewer" /\ showSuccessAlert']_vars
    /\ [](Len(roleDispatches) <= 1)
    /\ [](Len(roleDispatches) = 1 => ShareDisabled /\ ~ENABLED ClickShare)
    /\ [][CloseSuccessAlert =>
            /\ ~showSuccessAlert'
            /\ UNCHANGED <<open, email, role, roleDispatches>>]_vars

\* shared as editor, the alert closed, another role selected since
C9_Witness ==
    /\ Len(roleDispatches) = 1
    /\ roleDispatches[1].role = "editor"
    /\ ~showSuccessAlert
    /\ role = "owner"

\* C10: once every call has been answered, the files batch and the folders
\* batch held in the store are those requested for the current skip.
C10_BatchesOfCurrentPage ==
    BagCardinality(inflight) = 0 =>
        /\ filesInDataset.skips = {skip}
        /\ foldersInDataset.skips = {skip}

\* a call that only handleMetadataUpdateFinish dispatches is unanswered
UpdateFinishDispatched ==
    \E r \in BagToSet(inflight) :
        r.kind \in {"postDatasetMetadata", "datasetMetadata"}

\* C11: under MetadataSpec enableAddMetadata is false in every state: the
\* Add Metadata button is never rendered, so neither is the edit form, the
\* form data stays empty, and handleMetadataUpdateFinish never runs (no post
\* of metadata and no reload of the metadata list is ever dispatched).
C11_AddMetadataUnreachable ==
    /\ ~enableAddMetadata
    /\ ~AddMetadataButtonRendered
    /\ ~EditFormRendered
    /\ ~ENABLED ClickAddMetadata
    /\ ~ENABLED ClickUpdate
    /\ metadataRequestForms = <<>>
    /\ ~UpdateFinishDispatched

\* an editor on the User Metadata tab, the display branch in use (an entry
\* was updated from it), and no Add Metadata button
C11_Witness ==
    /\ datasetRole = "editor"
    /\ selectedTabIndex = 2
    /\ "DisplayMetadata" \in Rendered
    /\ "AddMetadataButton" \notin Rendered
    /\ BagIn(Req("patchDatasetMetadata", NoFolder, 0), inflight)

====
